---------------------------- MODULE Spec2Model ----------------------------
(***************************************************************************)
(* A model of the FHT 80b codec of fhz2mqtt (src/fht.c): fht_decode, which *)
(* turns a frame received from the FHZ into topic/value reports, and       *)
(* fht_set, which turns a command name and a text payload into the frame   *)
(* handed to the transport.                                                *)
(*                                                                         *)
(* Text that the code inspects character by character (payloads, report    *)
(* values) is a sequence of one-character strings; text that the code only *)
(* copies or compares as a whole (command names, topics) is a string.      *)
(* C arrays are 0-based, sequences 1-based: data[k] in C is data[k+1].     *)
(***************************************************************************)
EXTENDS Integers, Sequences, FiniteSets, TLC

VARIABLES
    temp_low,   \* static unsigned char temp_low (fht.c:95)
    message,    \* the caller's struct fht_message, reused from call to call
    ret,        \* the value the last call returned
    sent,       \* the frames the last call handed to fhz_send
    op,         \* the last call and its arguments
    last_low,   \* history: the last frame dispatched for function id 0x42
    had_second  \* history: report slot 1 was in use when the last call began

vars == <<temp_low, message, ret, sent, op, last_low, had_second>>

-----------------------------------------------------------------------------
(* Bounds of the model *)

\* largest declared length of an inbound frame
MaxFrameLen == 11
\* largest integer part of a decimal temperature payload
MaxTempInt == 32
\* largest value of an unsigned calendar payload (month, day, hour, minute)
MaxCalendar == 61
\* years offered as payloads run from 1999 to 1999 + YearSpan, then by century
YearSpan == 3

-----------------------------------------------------------------------------
(* errno values and widths *)

EPERM == 1
EIO == 5
EAGAIN == 11
EINVAL == 22
ERANGE == 34

UCHAR == 256

\* (unsigned char)x
ToUChar(x) == x % UCHAR

\* An unsigned int is held as the int with the same 32 bits (what the
\* conversion to int gives): 4294967295 is held as -1. Unsigned u > k, for
\* a small k >= 0:
UGreater(u, k) == u < 0 \/ u > k

-----------------------------------------------------------------------------
(* #defines of fht.c *)

FHT_YEAR_BASE == 2000
FHT_IS_VALVE == 0
FHT_VALVE_1 == 1
FHT_VALVE_2 == 2
FHT_VALVE_3 == 3
FHT_VALVE_4 == 4
FHT_VALVE_5 == 5
FHT_VALVE_6 == 6
FHT_VALVE_7 == 7
FHT_VALVE_8 == 8
FHT_MODE == 62
FHT_MODE_AUTO == 0
FHT_MODE_MANU == 1
FHT_MODE_HOLI == 2
FHT_DESIRED_TEMP == 65
FHT_IS_TEMP_LOW == 66
FHT_IS_TEMP_HIGH == 67
FHT_STATUS == 68
FHT_MANU_TEMP == 69
FHT_ACK == 75
FHT_YEAR == 96
FHT_MONTH == 97
FHT_DAY == 98
FHT_HOUR == 99
FHT_MINUTE == 100
FHT_ACK2 == 105
FHT_START_XMIT == 125
FHT_END_XMIT == 126
FHT_DAY_TEMP == 130
FHT_NIGHT_TEMP == 132
FHT_WINDOW_OPEN_TEMP == 138

\* FHT_TEMP_OFF 5.5 and FHT_TEMP_ON 30.5, in tenths of a degree
FHT_TEMP_OFF_10 == 55
FHT_TEMP_ON_10 == 305

s_mode_auto == <<"a", "u", "t", "o">>
s_mode_holiday == <<"h", "o", "l", "i", "d", "a", "y">>
s_mode_manual == <<"m", "a", "n", "u", "a", "l">>

-----------------------------------------------------------------------------
(* libc: characters, strcasecmp, sscanf, printf conversions *)

DigitChars == <<"0", "1", "2", "3", "4", "5", "6", "7", "8", "9">>
UpperChars ==
    <<"A", "B", "C", "D", "E", "F", "G", "H", "I", "J", "K", "L", "M",
      "N", "O", "P", "Q", "R", "S", "T", "U", "V", "W", "X", "Y", "Z">>
LowerChars ==
    <<"a", "b", "c", "d", "e", "f", "g", "h", "i", "j", "k", "l", "m",
      "n", "o", "p", "q", "r", "s", "t", "u", "v", "w", "x", "y", "z">>

isdigit(c) == \E d \in 1..10 : DigitChars[d] = c
DigitVal(c) == (CHOOSE d \in 1..10 : DigitChars[d] = c) - 1
isspace(c) == c \in {" ", "\t", "\n"}

tolower(c) ==
    IF \E k \in 1..26 : UpperChars[k] = c
    THEN LowerChars[CHOOSE k \in 1..26 : UpperChars[k] = c]
    ELSE c

\* strcasecmp(a, b): 0 when the two texts are equal up to letter case
strcasecmp(a, b) ==
    IF Len(a) = Len(b) /\ \A k \in 1..Len(a) : tolower(a[k]) = tolower(b[k])
    THEN 0
    ELSE 1

\* strcmp(a, b): 0 when the two texts are equal
strcmp(a, b) == IF a = b THEN 0 ELSE 1

RECURSIVE Pow10(_)
Pow10(n) == IF n = 0 THEN 1 ELSE 10 * Pow10(n - 1)

\* the first index at or after i that holds no white space
RECURSIVE SkipSpace(_, _)
SkipSpace(s, i) ==
    IF i <= Len(s) /\ isspace(s[i]) THEN SkipSpace(s, i + 1) ELSE i

\* the first index at or after i that holds no digit
RECURSIVE SkipDigits(_, _)
SkipDigits(s, i) ==
    IF i <= Len(s) /\ isdigit(s[i]) THEN SkipDigits(s, i + 1) ELSE i

\* the number written by the digits s[i] .. s[j-1]
RECURSIVE DigitsValue(_, _, _)
DigitsValue(s, i, j) ==
    IF j <= i THEN 0
    ELSE 10 * DigitsValue(s, i, j - 1) + DigitVal(s[j - 1])

HasSign(s, i) == i <= Len(s) /\ s[i] \in {"+", "-"}

\* sscanf(payload, "%u", &v): n is the number of conversions, v the value
\* stored (as the int with the same bits). A leading '-' negates modulo
\* 2^32, as strtoul does. Text after the digits is left unread.
sscanf_u(s) ==
    LET i0 == SkipSpace(s, 1)
        i1 == IF HasSign(s, i0) THEN i0 + 1 ELSE i0
        i2 == SkipDigits(s, i1)
        mag == DigitsValue(s, i1, i2)
        neg == HasSign(s, i0) /\ s[i0] = "-"
    IN  IF i2 = i1 THEN [n |-> 0, v |-> 0]
        ELSE [n |-> 1, v |-> IF neg THEN 0 - mag ELSE mag]

\* sscanf(payload, "%f", &v) on decimal notation: the value stored is
\* num / den with den a power of ten. With at most a few fractional digits
\* the float holding it compares with 5.5 and 30.5, and halves, exactly as
\* the decimal does: every multiple of 0.5 in range is a float.
sscanf_f(s) ==
    LET i0 == SkipSpace(s, 1)
        i1 == IF HasSign(s, i0) THEN i0 + 1 ELSE i0
        i2 == SkipDigits(s, i1)
        dot == i2 <= Len(s) /\ s[i2] = "."
        i3 == IF dot THEN SkipDigits(s, i2 + 1) ELSE i2
        nfrac == IF dot THEN i3 - (i2 + 1) ELSE 0
        mag == DigitsValue(s, i1, i2) * Pow10(nfrac)
               + (IF dot THEN DigitsValue(s, i2 + 1, i3) ELSE 0)
        neg == HasSign(s, i0) /\ s[i0] = "-"
    IN  IF (i2 - i1) + nfrac = 0 THEN [n |-> 0, num |-> 0, den |-> 1]
        ELSE [n |-> 1, num |-> IF neg THEN 0 - mag ELSE mag,
              den |-> Pow10(nfrac)]

\* the decimal digits of n >= 0
RECURSIVE fmt_digits(_)
fmt_digits(n) ==
    IF n < 10 THEN <<DigitChars[n + 1]>>
    ELSE fmt_digits(n \div 10) \o <<DigitChars[(n % 10) + 1]>>

\* printf("%u", n): a negative int prints as the unsigned with its bits,
\* 4294967296 + n, here 4294 and the six digits of 967296 + n
fmt_u(n) ==
    IF n >= 0 THEN fmt_digits(n)
    ELSE <<"4", "2", "9", "4">>
         \o SubSeq(fmt_digits(1000000 + 967296 + n), 2, 7)

\* printf("%0.1f", t / 10.0) for a number of tenths t >= 0
fmt_f1(t) == fmt_u(t \div 10) \o <<".">> \o fmt_u(t % 10)

\* printf("%0.2f", h / 100.0) for a number of hundredths h >= 0
fmt_f2(h) ==
    fmt_u(h \div 100) \o <<".">> \o fmt_u((h % 100) \div 10) \o fmt_u(h % 10)

-----------------------------------------------------------------------------
(* struct fht_message and the report macros *)

\* a report slot after memset: both texts empty
EmptyReport == [topic |-> "", value |-> <<>>]

\* memset(message, 0, sizeof(*message)): the type is 0 (written ""), the
\* hauscode 0/0 and every report text empty. fht.c uses the report slots
\* 0 and 1.
memset_message(m) ==
    [type |-> "", hauscode |-> [upper |-> 0, lower |-> 0],
     report |-> <<EmptyReport, EmptyReport>>]

\* report_printf_topic(message, no, ...)
report_printf_topic(m, no, text) ==
    [m EXCEPT !.report[no + 1].topic = text]

\* report_printf_value(message, no, ...)
report_printf_value(m, no, text) ==
    [m EXCEPT !.report[no + 1].value = text]

\* what an output conversion leaves: its return value, the message and the
\* static temp_low
Out(err, m, latch) == [err |-> err, message |-> m, temp_low |-> latch]

-----------------------------------------------------------------------------
(* the output conversions: (message, raw, temp_low) -> Out *)

\* "%0.1f" of (float)raw->value * 0.5: value * 5 tenths
fht_temp_to_str(m, raw, latch) ==
    Out(0, report_printf_value(m, 0, fmt_f1(raw.value * 5)), latch)

mode_to_str(m, raw, latch) ==
    LET known == raw.value \in {FHT_MODE_AUTO, FHT_MODE_MANU, FHT_MODE_HOLI}
        src == CASE raw.value = FHT_MODE_AUTO -> s_mode_auto
                 [] raw.value = FHT_MODE_MANU -> s_mode_manual
                 [] raw.value = FHT_MODE_HOLI -> s_mode_holiday
                 [] OTHER -> <<"u", "n", "k", "n", "o", "w", "n">>
    IN  Out(IF known THEN 0 ELSE 0 - EINVAL,
            report_printf_value(m, 0, src), latch)

fht_is_temp_low(m, raw, latch) ==
    Out(0 - EAGAIN, m, raw.value)

\* fht_is_temp_high_to_str leaving temp_low out of the sum
fht_is_temp_high_to_str_no_low(m, raw, latch) ==
    Out(0, report_printf_value(m, 0, fmt_f2((raw.value * 256) * 10)), latch)

\* fht_is_temp_high_to_str clearing temp_low once it has used it
fht_is_temp_high_to_str_clear(m, raw, latch) ==
    Out(0, report_printf_value(m, 0, fmt_f2((latch + raw.value * 256) * 10)),
        0)

\* "%0.2f" of ((float)temp_low + (float)raw->value * 256) / 10.0: the sum
\* is a whole number of tenths, so ten times as many hundredths
fht_is_temp_high_to_str(m, raw, latch) ==
    Out(0, report_printf_value(m, 0, fmt_f2((latch + raw.value * 256) * 10)),
        latch)

fht_year_to_str(m, raw, latch) ==
    Out(0, report_printf_value(m, 0, fmt_u(FHT_YEAR_BASE + raw.value)), latch)

fht_month_to_str(m, raw, latch) ==
    IF raw.value > 12 THEN Out(0 - EINVAL, m, latch)
    ELSE Out(0, report_printf_value(m, 0, fmt_u(raw.value)), latch)

fht_day_to_str(m, raw, latch) ==
    IF raw.value > 31 THEN Out(0 - EINVAL, m, latch)
    ELSE Out(0, report_printf_value(m, 0, fmt_u(raw.value)), latch)

fht_hour_to_str(m, raw, latch) ==
    IF raw.value > 24 THEN Out(0 - EINVAL, m, latch)
    ELSE Out(0, report_printf_value(m, 0, fmt_u(raw.value)), latch)

fht_minute_to_str(m, raw, latch) ==
    IF raw.value > 59 THEN Out(0 - EINVAL, m, latch)
    ELSE Out(0, report_printf_value(m, 0, fmt_u(raw.value)), latch)

\* "%0.1f" of (float)valve * 100 / 255, in tenths: valve * 1000 / 255
\* rounded to the nearest whole number (no valve value lies on a tie)
PercentTenths(valve) == (400 * valve + 51) \div 102

\* fht_percentage_to_str taking lime-protection for sound only with high
\* nibble 0xa
fht_percentage_to_str_lime_a(m, raw, latch) ==
    LET l == (raw.status \div 16) % 16
        r == raw.status % 16
        valve == CASE r = 1 -> 255
                   [] r = 2 -> 0
                   [] OTHER -> raw.value
        percent(mm) ==
            Out(0, report_printf_value(mm, 0, fmt_f1(PercentTenths(valve))),
                latch)
    IN  CASE r = 8 ->
               Out(0,
                   report_printf_value(
                       report_printf_topic(m, 0,
                           "valve/" \o ToString(raw.cmd) \o "/offset"),
                       0,
                       (IF raw.value >= 128 THEN <<"-">> ELSE <<>>)
                           \o fmt_u(raw.value % 128)),
                   latch)
          [] r = 10 ->
               IF l = 10 THEN percent(m)
               ELSE Out(0 - EINVAL, m, latch)
          [] r = 12 ->
               Out(0,
                   report_printf_value(
                       report_printf_topic(m, 0, "synctime"),
                       0, fmt_u((raw.value \div 2) - 1)),
                   latch)
          [] r = 14 -> Out(0 - EINVAL, m, latch)
          [] r = 15 ->
               percent(report_printf_value(
                           report_printf_topic(m, 1,
                               "valve/" \o ToString(raw.cmd)),
                           1, <<"p", "a", "i", "r", "e", "d">>))
          [] OTHER -> percent(m)

fht_percentage_to_str(m, raw, latch) ==
    LET l == (raw.status \div 16) % 16
        r == raw.status % 16
        valve == CASE r = 1 -> 255
                   [] r = 2 -> 0
                   [] OTHER -> raw.value
        percent(mm) ==
            Out(0, report_printf_value(mm, 0, fmt_f1(PercentTenths(valve))),
                latch)
    IN  CASE r = 8 ->
               Out(0,
                   report_printf_value(
                       report_printf_topic(m, 0,
                           "valve/" \o ToString(raw.cmd) \o "/offset"),
                       0,
                       (IF raw.value >= 128 THEN <<"-">> ELSE <<>>)
                           \o fmt_u(raw.value % 128)),
                   latch)
          [] r = 10 ->
               IF l = 10 \/ l = 11 THEN percent(m)
               ELSE Out(0 - EINVAL, m, latch)
          [] r = 12 ->
               Out(0,
                   report_printf_value(
                       report_printf_topic(m, 0, "synctime"),
                       0, fmt_u((raw.value \div 2) - 1)),
                   latch)
          [] r = 14 -> Out(0 - EINVAL, m, latch)
          [] r = 15 ->
               percent(report_printf_value(
                           report_printf_topic(m, 1,
                               "valve/" \o ToString(raw.cmd)),
                           1, <<"p", "a", "i", "r", "e", "d">>))
          [] OTHER -> percent(m)

\* fht_status_to_str reading raw->status instead of raw->value
fht_status_to_str_status_byte(m, raw, latch) ==
    LET window == IF (raw.status \div 32) % 2 = 1
                  THEN <<"o", "p", "e", "n">>
                  ELSE <<"c", "l", "o", "s", "e">>
        battery == IF raw.status % 2 = 1
                   THEN <<"e", "m", "p", "t", "y">>
                   ELSE <<"o", "k">>
        m0 == report_printf_value(report_printf_topic(m, 0, "window"),
                                  0, window)
        m1 == report_printf_value(report_printf_topic(m0, 1, "battery"),
                                  1, battery)
    IN  Out(0, m1, latch)

fht_status_to_str(m, raw, latch) ==
    LET window == IF (raw.value \div 32) % 2 = 1
                  THEN <<"o", "p", "e", "n">>
                  ELSE <<"c", "l", "o", "s", "e">>
        battery == IF raw.value % 2 = 1
                   THEN <<"e", "m", "p", "t", "y">>
                   ELSE <<"o", "k">>
        m0 == report_printf_value(report_printf_topic(m, 0, "window"),
                                  0, window)
        m1 == report_printf_value(report_printf_topic(m0, 1, "battery"),
                                  1, battery)
    IN  Out(0, m1, latch)

fht_ignore(m, raw, latch) == Out(0, m, latch)

-----------------------------------------------------------------------------
(* the input conversions: payload -> int *)

\* (unsigned char)(temp / 0.5) for temp = num / den in [5.5, 30.5]: the
\* conversion to an integer type drops the fraction
temp_steps(num, den) == ToUChar((2 * num) \div den)

payload_to_fht_temp(payload) ==
    LET f == sscanf_f(payload)
    IN  IF strcasecmp(payload, <<"o", "f", "f">>) = 0
        THEN temp_steps(FHT_TEMP_OFF_10, 10)
        ELSE IF strcasecmp(payload, <<"o", "n">>) = 0
        THEN temp_steps(FHT_TEMP_ON_10, 10)
        ELSE IF f.n # 1 THEN 0 - EINVAL
        ELSE IF 10 * f.num < FHT_TEMP_OFF_10 * f.den
                \/ 10 * f.num > FHT_TEMP_ON_10 * f.den
        THEN 0 - ERANGE
        ELSE temp_steps(f.num, f.den)

payload_to_mode(payload) ==
    IF strcasecmp(payload, s_mode_auto) = 0 THEN FHT_MODE_AUTO
    ELSE IF strcasecmp(payload, s_mode_manual) = 0 THEN FHT_MODE_MANU
    ELSE IF strcasecmp(payload, s_mode_manual) = 0 THEN FHT_MODE_HOLI
    ELSE 0 - EINVAL

\* input_not_accepted rejecting the payload as invalid
input_not_accepted_einval(payload) == 0 - EINVAL

input_not_accepted(payload) == 0 - EPERM

\* year - FHT_YEAR_BASE is computed in unsigned int and returned as int
payload_to_fht_year(payload) ==
    LET u == sscanf_u(payload)
    IN  IF u.n # 1 THEN 0 - EINVAL
        ELSE u.v - FHT_YEAR_BASE

payload_to_fht_month(payload) ==
    LET u == sscanf_u(payload)
    IN  IF u.n # 1 THEN 0 - EINVAL
        ELSE IF UGreater(u.v, 12) THEN 0 - EINVAL
        ELSE u.v

payload_to_fht_day(payload) ==
    LET u == sscanf_u(payload)
    IN  IF u.n # 1 THEN 0 - EINVAL
        ELSE IF UGreater(u.v, 31) THEN 0 - EINVAL
        ELSE u.v

payload_to_fht_hour(payload) ==
    LET u == sscanf_u(payload)
    IN  IF u.n # 1 THEN 0 - EINVAL
        ELSE IF UGreater(u.v, 24) THEN 0 - EINVAL
        ELSE u.v

payload_to_fht_minute(payload) ==
    LET u == sscanf_u(payload)
    IN  IF u.n # 1 THEN 0 - EINVAL
        ELSE IF UGreater(u.v, 59) THEN 0 - EINVAL
        ELSE u.v

-----------------------------------------------------------------------------
(* the registry: static const struct fht_command fht_commands[] *)

\* an entry; has_name is FALSE where .name is left NULL
Command(id, has_name, name, input, output) ==
    [function_id |-> id, has_name |-> has_name, name |-> name,
     input_conversion |-> input, output_conversion |-> output]

DEFINE_VALVE(no) ==
    Command(no, TRUE, "valve/" \o ToString(no),
            "input_not_accepted", "fht_percentage_to_str")

DEFINE_IGNORE(no) ==
    Command(no, FALSE, "", "input_not_accepted", "fht_ignore")

fht_commands ==
    << Command(FHT_IS_VALVE, TRUE, "is-valve",
               "input_not_accepted", "fht_percentage_to_str"),
       DEFINE_VALVE(FHT_VALVE_1),
       DEFINE_VALVE(FHT_VALVE_2),
       DEFINE_VALVE(FHT_VALVE_3),
       DEFINE_VALVE(FHT_VALVE_4),
       DEFINE_VALVE(FHT_VALVE_5),
       DEFINE_VALVE(FHT_VALVE_6),
       DEFINE_VALVE(FHT_VALVE_7),
       DEFINE_VALVE(FHT_VALVE_8),
       Command(FHT_MODE, TRUE, "mode", "payload_to_mode", "mode_to_str"),
       Command(FHT_DESIRED_TEMP, TRUE, "desired-temp",
               "payload_to_fht_temp", "fht_temp_to_str"),
       Command(FHT_IS_TEMP_LOW, FALSE, "",
               "input_not_accepted", "fht_is_temp_low"),
       Command(FHT_IS_TEMP_HIGH, TRUE, "is-temp",
               "input_not_accepted", "fht_is_temp_high_to_str"),
       Command(FHT_STATUS, TRUE, "status",
               "input_not_accepted", "fht_status_to_str"),
       Command(FHT_MANU_TEMP, TRUE, "manu-temp",
               "payload_to_fht_temp", "fht_temp_to_str"),
       DEFINE_IGNORE(FHT_ACK),
       Command(FHT_YEAR, TRUE, "year",
               "payload_to_fht_year", "fht_year_to_str"),
       Command(FHT_MONTH, TRUE, "month",
               "payload_to_fht_month", "fht_month_to_str"),
       Command(FHT_DAY, TRUE, "day",
               "payload_to_fht_day", "fht_day_to_str"),
       Command(FHT_HOUR, TRUE, "hour",
               "payload_to_fht_hour", "fht_hour_to_str"),
       Command(FHT_MINUTE, TRUE, "minute",
               "payload_to_fht_minute", "fht_minute_to_str"),
       DEFINE_IGNORE(FHT_ACK2),
       DEFINE_IGNORE(FHT_START_XMIT),
       DEFINE_IGNORE(FHT_END_XMIT),
       Command(FHT_DAY_TEMP, TRUE, "day-temp",
               "payload_to_fht_temp", "fht_temp_to_str"),
       Command(FHT_NIGHT_TEMP, TRUE, "night-temp",
               "payload_to_fht_temp", "fht_temp_to_str"),
       Command(FHT_WINDOW_OPEN_TEMP, TRUE, "window-open-temp",
               "payload_to_fht_temp", "fht_temp_to_str") >>

\* fht_command->input_conversion(payload)
input_conversion(c, payload) ==
    CASE c.input_conversion = "payload_to_fht_temp" ->
             payload_to_fht_temp(payload)
      [] c.input_conversion = "payload_to_mode" -> payload_to_mode(payload)
      [] c.input_conversion = "payload_to_fht_year" ->
             payload_to_fht_year(payload)
      [] c.input_conversion = "payload_to_fht_month" ->
             payload_to_fht_month(payload)
      [] c.input_conversion = "payload_to_fht_day" ->
             payload_to_fht_day(payload)
      [] c.input_conversion = "payload_to_fht_hour" ->
             payload_to_fht_hour(payload)
      [] c.input_conversion = "payload_to_fht_minute" ->
             payload_to_fht_minute(payload)
      [] c.input_conversion = "input_not_accepted" ->
             input_not_accepted(payload)

\* fht_command->output_conversion(message, &fht_message_raw)
output_conversion(c, m, raw, latch) ==
    CASE c.output_conversion = "fht_temp_to_str" ->
             fht_temp_to_str(m, raw, latch)
      [] c.output_conversion = "mode_to_str" -> mode_to_str(m, raw, latch)
      [] c.output_conversion = "fht_is_temp_low" ->
             fht_is_temp_low(m, raw, latch)
      [] c.output_conversion = "fht_is_temp_high_to_str" ->
             fht_is_temp_high_to_str(m, raw, latch)
      [] c.output_conversion = "fht_year_to_str" ->
             fht_year_to_str(m, raw, latch)
      [] c.output_conversion = "fht_month_to_str" ->
             fht_month_to_str(m, raw, latch)
      [] c.output_conversion = "fht_day_to_str" ->
             fht_day_to_str(m, raw, latch)
      [] c.output_conversion = "fht_hour_to_str" ->
             fht_hour_to_str(m, raw, latch)
      [] c.output_conversion = "fht_minute_to_str" ->
             fht_minute_to_str(m, raw, latch)
      [] c.output_conversion = "fht_percentage_to_str" ->
             fht_percentage_to_str(m, raw, latch)
      [] c.output_conversion = "fht_status_to_str" ->
             fht_status_to_str(m, raw, latch)
      [] c.output_conversion = "fht_ignore" -> fht_ignore(m, raw, latch)

-----------------------------------------------------------------------------
(* fht_decode *)

magic_ack == <<131, 9, 131, 1>>
magic_status == <<9, 9, 160, 1>>

\* memcmp(payload->data, magic, sizeof(magic)): 0 when the first four
\* bytes are the magic
memcmp(data, magic) ==
    IF \A k \in 1..Len(magic) : data[k] = magic[k] THEN 0 ELSE 1

\* for_each_fht_command ... if (function_id != cmd) continue: the index of
\* the first entry for function id cmd, 0 when the loop runs out
find_function(cmd) ==
    IF \E i \in 1..Len(fht_commands) : fht_commands[i].function_id = cmd
    THEN CHOOSE i \in 1..Len(fht_commands) :
             /\ fht_commands[i].function_id = cmd
             /\ \A j \in 1..(i - 1) : fht_commands[j].function_id # cmd
    ELSE 0

\* lines 520-530: the lookup, the default topic and the conversion
dispatch(m, raw, latch) ==
    LET i == find_function(raw.cmd)
        c == fht_commands[i]
        named == IF c.has_name THEN [m EXCEPT !.report[1].topic = c.name]
                 ELSE m
    IN  IF i = 0 THEN Out(0 - EINVAL, m, latch)
        ELSE output_conversion(c, named, raw, latch)

\* fht_decode without the length check of a STATUS frame
fht_decode_any_length(payload, m, latch) ==
    LET m0 == memset_message(m)
        data == payload.data
        hauscode == [upper |-> data[5], lower |-> data[6]]
        ack == [cmd |-> data[7], subfun |-> 0, status |-> 0,
                value |-> data[8]]
        status == [cmd |-> data[7], subfun |-> data[8], status |-> data[9],
                   value |-> data[10]]
    IN  IF payload.len < 9 THEN Out(0 - EINVAL, m0, latch)
        ELSE IF memcmp(data, magic_ack) = 0
        THEN dispatch([m0 EXCEPT !.type = "ACK", !.hauscode = hauscode],
                      ack, latch)
        ELSE IF memcmp(data, magic_status) = 0
        THEN dispatch([m0 EXCEPT !.type = "STATUS", !.hauscode = hauscode],
                      status, latch)
        ELSE Out(0 - EINVAL, m0, latch)

\* fht_decode without the memset of the caller's message
fht_decode_no_memset(payload, m, latch) ==
    LET m0 == m
        data == payload.data
        hauscode == [upper |-> data[5], lower |-> data[6]]
        ack == [cmd |-> data[7], subfun |-> 0, status |-> 0,
                value |-> data[8]]
        status == [cmd |-> data[7], subfun |-> data[8], status |-> data[9],
                   value |-> data[10]]
    IN  IF payload.len < 9 THEN Out(0 - EINVAL, m0, latch)
        ELSE IF memcmp(data, magic_ack) = 0
        THEN dispatch([m0 EXCEPT !.type = "ACK", !.hauscode = hauscode],
                      ack, latch)
        ELSE IF memcmp(data, magic_status) = 0
        THEN IF payload.len # 10 THEN Out(0 - EINVAL, m0, latch)
             ELSE dispatch([m0 EXCEPT !.type = "STATUS",
                                      !.hauscode = hauscode],
                           status, latch)
        ELSE Out(0 - EINVAL, m0, latch)

\* int fht_decode(const struct payload *payload, struct fht_message *message)
\* with the static temp_low it reads and writes
fht_decode(payload, m, latch) ==
    LET m0 == memset_message(m)
        data == payload.data
        hauscode == [upper |-> data[5], lower |-> data[6]]
        ack == [cmd |-> data[7], subfun |-> 0, status |-> 0,
                value |-> data[8]]
        status == [cmd |-> data[7], subfun |-> data[8], status |-> data[9],
                   value |-> data[10]]
    IN  IF payload.len < 9 THEN Out(0 - EINVAL, m0, latch)
        ELSE IF memcmp(data, magic_ack) = 0
        THEN dispatch([m0 EXCEPT !.type = "ACK", !.hauscode = hauscode],
                      ack, latch)
        ELSE IF memcmp(data, magic_status) = 0
        THEN IF payload.len # 10 THEN Out(0 - EINVAL, m0, latch)
             ELSE dispatch([m0 EXCEPT !.type = "STATUS",
                                      !.hauscode = hauscode],
                           status, latch)
        ELSE Out(0 - EINVAL, m0, latch)

-----------------------------------------------------------------------------
(* fht_send and fht_set *)

\* what fhz_send can return: 0, or the error of a failed write
fhz_send_results == {0, 0 - EIO}

\* fht_send with the two hauscode bytes in the wrong order
fht_send_swapped(hauscode, memory, value, io) ==
    [err |-> io,
     sent |-> << [tt |-> 4, len |-> 7,
                  data |-> <<2, 1, 131, hauscode.lower, hauscode.upper,
                             memory, value>>] >>]

\* static int fht_send(int fd, const struct hauscode *hauscode,
\* unsigned char memory, unsigned char value): the struct payload handed to
\* fhz_send, and fhz_send's return value io
fht_send(hauscode, memory, value, io) ==
    [err |-> io,
     sent |-> << [tt |-> 4, len |-> 7,
                  data |-> <<2, 1, 131, hauscode.upper, hauscode.lower,
                             memory, value>>] >>]

\* for_each_fht_command ... if (name && !strcmp(name, command)): the index
\* of the first entry named command, 0 when none is found
find_name(command) ==
    IF \E i \in 1..Len(fht_commands) :
           fht_commands[i].has_name /\ strcmp(fht_commands[i].name, command) = 0
    THEN CHOOSE i \in 1..Len(fht_commands) :
             /\ fht_commands[i].has_name
             /\ strcmp(fht_commands[i].name, command) = 0
             /\ \A j \in 1..(i - 1) :
                    ~(fht_commands[j].has_name
                      /\ strcmp(fht_commands[j].name, command) = 0)
    ELSE 0

\* int fht_set(int fd, const struct hauscode *hauscode, const char *command,
\* const char *payload); io is what fhz_send returns if it is called
fht_set(hauscode, command, payload, io) ==
    LET i == find_name(command)
        c == fht_commands[i]
        err == input_conversion(c, payload)
        fht_val == ToUChar(err)
    IN  IF i = 0 THEN [err |-> 0 - EINVAL, sent |-> <<>>]
        ELSE IF err < 0 THEN [err |-> err, sent |-> <<>>]
        ELSE fht_send(hauscode, c.function_id, fht_val, io)

-----------------------------------------------------------------------------
(* the inputs offered to the two operations *)

Hauscodes == {[upper |-> 12, lower |-> 34], [upper |-> 56, lower |-> 78]}

\* an inbound struct payload: the declared length and the 10 first bytes
\* of the data buffer
Frame(len, magic, h, cmd, b7, b8, b9) ==
    [len |-> len, data |-> magic \o <<h.upper, h.lower, cmd, b7, b8, b9>>]

\* a prefix that is neither magic: the ACK magic with one byte of the
\* STATUS magic
magic_other == <<131, 9, 160, 1>>

\* frames of every shape: short, ACK, STATUS of each length, no magic
ShapeFrames ==
    { Frame(len, magic, [upper |-> 12, lower |-> 34], cmd, 1, 42, 100) :
        len \in 8..MaxFrameLen,
        magic \in {magic_ack, magic_status, magic_other},
        cmd \in {FHT_MODE, FHT_IS_TEMP_LOW} }

\* the two halves of a measured temperature, as ACK and as STATUS frames,
\* from either device
TempFrames ==
    { Frame(9, magic_ack, h, cmd, v, 0, 0) :
        h \in Hauscodes, cmd \in {FHT_IS_TEMP_LOW, FHT_IS_TEMP_HIGH},
        v \in {1, 100} }
    \cup
    { Frame(10, magic_status, h, cmd, 0, 105, v) :
        h \in Hauscodes, cmd \in {FHT_IS_TEMP_LOW, FHT_IS_TEMP_HIGH},
        v \in {1, 33, 100} }

\* STATUS frames for the other decoder classes, and for a function id
\* (0x99) that the registry does not hold
OtherFrames ==
    { Frame(10, magic_status, [upper |-> 56, lower |-> 78], cmd, 0, b8, b9) :
        cmd \in {FHT_IS_VALVE, FHT_VALVE_3, FHT_MODE, FHT_STATUS, FHT_ACK,
                 FHT_MONTH, 153},
        b8 \in {42, 170, 47}, b9 \in {1, 33} }

Frames == ShapeFrames \cup TempFrames \cup OtherFrames

\* well-formed STATUS frames with every status byte
StatusFrames ==
    { Frame(10, magic_status, h, cmd, 0, b8, b9) :
        h \in {[upper |-> 12, lower |-> 34]},
        cmd \in {FHT_IS_VALVE, FHT_VALVE_1, FHT_VALVE_8, FHT_STATUS},
        b8 \in 0..255, b9 \in {0, 1, 32, 33, 127, 128, 254, 255} }

\* decimal payloads i.f and a few with two fractional digits
DecimalPayloads ==
    { fmt_u(i) \o <<".">> \o fmt_u(f) : i \in 0..MaxTempInt, f \in 0..9 }
    \cup { fmt_u(i) \o <<".">> \o fmt_u(f) \o <<"5">> :
             i \in {5, 21, 30}, f \in {2, 4, 5, 7} }

\* unsigned payloads: calendar values, and years around the base and
\* beyond one byte of offset
UnsignedPayloads ==
    { fmt_u(n) : n \in 0..MaxCalendar }
    \cup { fmt_u(1999 + k) : k \in 0..YearSpan }
    \cup { fmt_u(y) : y \in {2018, 2100, 2255, 2256, 2300} }

WordPayloads ==
    { <<"o", "f", "f">>, <<"O", "F", "F">>, <<"O", "f", "f">>,
      <<"o", "n">>, <<"O", "N">>, <<"o", "N">>,
      <<"a", "u", "t", "o">>, <<"A", "u", "t", "o">>,
      <<"m", "a", "n", "u", "a", "l">>, <<"M", "A", "N", "U", "A", "L">>,
      <<"h", "o", "l", "i", "d", "a", "y">>,
      <<"H", "o", "l", "i", "d", "a", "y">>,
      <<>>, <<"x">>, <<"o", "f">>, <<".">>, <<"-">>,
      <<" ", "2", "1", ".", "5">>, <<"+", "2", "1", ".", "5">>,
      <<"-", "2", "1", ".", "5">>, <<"-", "1">>,
      <<"2", "1", ".", "5", "C">>, <<"2", "1", ".">>, <<".", "5">> }

Payloads == DecimalPayloads \cup UnsignedPayloads \cup WordPayloads

\* every name of the registry, and names it does not hold
CommandNames ==
    { fht_commands[i].name : i \in 1..Len(fht_commands) }
    \cup { "is-temp-low", "is-temp-high", "ack", "ack2", "start-xmit",
           "end-xmit", "Mode", "valve/9", "desired-temp " }

\* the few set commands interleaved with the frames
FewSets ==
    [hauscode : Hauscodes,
     command : {"mode", "desired-temp", "is-temp", "is-temp-low"},
     payload : {<<"a", "u", "t", "o">>, <<"2", "1", ".", "5">>}]

AllSets == [hauscode : Hauscodes, command : CommandNames, payload : Payloads]

-----------------------------------------------------------------------------
(* the state machine *)

NoFrame == [len |-> 0, data |-> <<>>]
NoHauscode == [upper |-> 0, lower |-> 0]
NoLow == [seen |-> FALSE, hauscode |-> NoHauscode, value |-> 0]

\* the frame classifies (lines 501-515) and carries function id 0x42
IsLowFrame(payload) ==
    /\ payload.len >= 9
    /\ \/ SubSeq(payload.data, 1, 4) = magic_ack
       \/ SubSeq(payload.data, 1, 4) = magic_status /\ payload.len = 10
    /\ payload.data[7] = FHT_IS_TEMP_LOW

\* the value byte of a frame that classifies: offset 7 of an ACK, offset 9
\* of a STATUS
ValueByte(payload) ==
    IF SubSeq(payload.data, 1, 4) = magic_ack THEN payload.data[8]
    ELSE payload.data[10]

Init ==
    /\ temp_low = 0
    /\ message = memset_message(<<>>)
    /\ ret = 0
    /\ sent = <<>>
    /\ op = [kind |-> "none", frame |-> NoFrame, hauscode |-> NoHauscode,
             command |-> "", payload |-> <<>>]
    /\ last_low = NoLow
    /\ had_second = FALSE

\* one call of fht_decode on the caller's message
Decode(frames) ==
    \E payload \in frames :
        LET r == fht_decode(payload, message, temp_low)
        IN  /\ temp_low' = r.temp_low
            /\ message' = r.message
            /\ ret' = r.err
            /\ sent' = <<>>
            /\ op' = [kind |-> "decode", frame |-> payload,
                      hauscode |-> NoHauscode, command |-> "",
                      payload |-> <<>>]
            /\ last_low' =
                   IF IsLowFrame(payload)
                   THEN [seen |-> TRUE,
                         hauscode |-> [upper |-> payload.data[5],
                                       lower |-> payload.data[6]],
                         value |-> ValueByte(payload)]
                   ELSE last_low
            /\ had_second' = (message.report[2] # EmptyReport)

\* one call of fht_set
Set(sets) ==
    \E s \in sets, io \in fhz_send_results :
        LET r == fht_set(s.hauscode, s.command, s.payload, io)
        IN  /\ ret' = r.err
            /\ sent' = r.sent
            /\ op' = [kind |-> "set", frame |-> NoFrame,
                      hauscode |-> s.hauscode, command |-> s.command,
                      payload |-> s.payload]
            /\ had_second' = (message.report[2] # EmptyReport)
            /\ UNCHANGED <<temp_low, message, last_low>>

\* frames and set commands in any order
Next == Decode(Frames) \/ Set(FewSets)
Spec == Init /\ [][Next]_vars

\* the decoders, called once on every status byte
NextDecode == op.kind = "none" /\ Decode(StatusFrames)
SpecDecode == Init /\ [][NextDecode]_vars

\* the encoders, called once on every command name and payload
NextSet == op.kind = "none" /\ Set(AllSets)
SpecSet == Init /\ [][NextSet]_vars

-----------------------------------------------------------------------------
(* what the claims speak of *)

IsDecode == op.kind = "decode"
IsSet == op.kind = "set"

Prefix(f) == SubSeq(f.data, 1, 4)

\* no report slot carries a topic or a value
NoReport(m) == \A i \in 1..Len(m.report) : m.report[i] = EmptyReport

\* no report slot carries a value
NoValue(m) == \A i \in 1..Len(m.report) : m.report[i].value = <<>>

\* the way a frame fails classification, "none" when it classifies
FailKind(f) ==
    CASE f.len < 9 -> "short"
      [] f.len >= 9 /\ Prefix(f) = magic_status /\ f.len # 10 -> "status-length"
      [] f.len >= 9 /\ Prefix(f) \notin {magic_ack, magic_status} -> "no-magic"
      [] OTHER -> "none"

\* the frame classifies and carries function id cmd
IsFrameFor(f, cmd) == FailKind(f) = "none" /\ f.data[7] = cmd

-----------------------------------------------------------------------------
(* C1 *)

-----------------------------------------------------------------------------
(* C2 *)

\* the low byte a high-temperature decode is to be combined with
LatchedLow == IF last_low.seen THEN last_low.value ELSE 0

\* the text of n tenths written with two fractional digits
TwoDigits(n) ==
    fmt_digits(n \div 10) \o <<".", DigitChars[(n % 10) + 1], "0">>

\* C2 (as amended): a decode for function id 0x43 with value byte H returns
\* 0 and reports (L + H*256)/10 with two fractional digits, L being the
\* value byte of the most recent decode for function id 0x42, of whatever
\* device, or 0 if there was none; low 0x64 then high 0x01 gives "35.60".
C2_HighCombinesLastLow ==
    (IsDecode /\ IsFrameFor(op.frame, FHT_IS_TEMP_HIGH)) =>
        LET H == ValueByte(op.frame)
        IN  /\ ret = 0
            /\ message.report[1].value = TwoDigits(LatchedLow + H * 256)
            /\ (LatchedLow = 100 /\ H = 1) =>
                   message.report[1].value = <<"3", "5", ".", "6", "0">>

C2_Witness ==
    /\ IsDecode
    /\ IsFrameFor(op.frame, FHT_IS_TEMP_HIGH)
    /\ ValueByte(op.frame) = 1
    /\ last_low.seen
    /\ last_low.value = 100
    /\ last_low.hauscode # message.hauscode
    /\ message.report[1].value = <<"3", "5", ".", "6", "0">>

\* C2 as stated: the same, and low 0x64 then high 0x01 gives the value 36.0
C2_ExampleThirtySix ==
    (IsDecode /\ IsFrameFor(op.frame, FHT_IS_TEMP_HIGH)) =>
        LET H == ValueByte(op.frame)
            v == sscanf_f(message.report[1].value)
        IN  /\ ret = 0
            /\ message.report[1].value = TwoDigits(LatchedLow + H * 256)
            /\ (LatchedLow = 100 /\ H = 1) => v.num * 10 = 360 * v.den

-----------------------------------------------------------------------------
(* C10 *)

\* C10: a decode that dispatches to the low-temperature decoder sets
\* temp_low to the frame's value byte, returns -EAGAIN and leaves every
\* report slot empty; every other step leaves temp_low as it was.
C10_LatchWrittenOnlyByLow ==
    [][ IF op'.kind = "decode" /\ IsFrameFor(op'.frame, FHT_IS_TEMP_LOW)
        THEN /\ temp_low' = ValueByte(op'.frame)
             /\ ret' = 0 - EAGAIN
             /\ NoReport(message')
        ELSE temp_low' = temp_low ]_vars

C10_Witness ==
    /\ IsDecode
    /\ IsFrameFor(op.frame, FHT_IS_TEMP_LOW)
    /\ ValueByte(op.frame) = 100
    /\ temp_low = 100
    /\ ret = 0 - EAGAIN
    /\ NoReport(message)

-----------------------------------------------------------------------------
(* C3, C4, C5: the encoders *)

\* the registry entry a set command names
Entry(command) == fht_commands[find_name(command)]

\* the names of the temperature fields and of the calendar fields
TempNames ==
    {"desired-temp", "manu-temp", "day-temp", "night-temp",
     "window-open-temp"}
CalendarNames == {"year", "month", "day", "hour", "minute"}

IsWord(payload, word) == strcasecmp(payload, word) = 0

\* the temperature a payload stands for, as num / den
TempOf(payload) ==
    IF IsWord(payload, <<"o", "f", "f">>) THEN [num |-> 55, den |-> 10]
    ELSE IF IsWord(payload, <<"o", "n">>) THEN [num |-> 305, den |-> 10]
    ELSE [num |-> sscanf_f(payload).num, den |-> sscanf_f(payload).den]

\* the STATUS frame a device would send back for the frame it was sent
Echo(f) ==
    Frame(10, magic_status, [upper |-> f.data[4], lower |-> f.data[5]],
          f.data[6], 0, 0, f.data[7])

\* C3: for a temperature or calendar field, decoding the byte that fht_set
\* transmits for a payload reports the value the payload stands for; for
\* year this includes offsets from 2000 beyond one byte.
C3_RoundTrip ==
    (IsSet /\ ret = 0 /\ op.command \in TempNames \cup CalendarNames) =>
        LET d == fht_decode(Echo(sent[1]), message, temp_low)
            text == d.message.report[1].value
        IN  /\ d.err = 0
            /\ op.command \in TempNames =>
                   sscanf_f(text).num * TempOf(op.payload).den
                       = TempOf(op.payload).num * sscanf_f(text).den
            /\ op.command \in CalendarNames =>
                   sscanf_u(text).v = sscanf_u(op.payload).v

\* round(num / den / 0.5) for num / den >= 0
RoundSteps(num, den) == (4 * num + den) \div (2 * den)

\* C4: the temperature encoder takes "off" as 5.5 and "on" as 30.5 in any
\* letter case, or a decimal number; it rejects with -ERANGE every number
\* below 5.5 or above 30.5; every accepted temperature t gives the byte
\* round(t / 0.5).
C4_TempEncoderRounds ==
    (IsSet /\ op.command \in TempNames) =>
        LET t == TempOf(op.payload)
            word == IsWord(op.payload, <<"o", "f", "f">>)
                    \/ IsWord(op.payload, <<"o", "n">>)
            number == ~word /\ sscanf_f(op.payload).n = 1
            out == 10 * t.num < 55 * t.den \/ 10 * t.num > 305 * t.den
        IN  /\ (number /\ out) => (ret = 0 - ERANGE /\ sent = <<>>)
            /\ (word \/ (number /\ ~out)) =>
                   /\ Len(sent) = 1
                   /\ sent[1].data[7] = RoundSteps(t.num, t.den)
            /\ (~word /\ ~number) => (ret = 0 - EINVAL /\ sent = <<>>)

\* C5: the mode encoder takes "auto", "manual" and "holiday" in any letter
\* case and gives the values 0, 1 and 2, which the mode decoder reports as
\* those words; every other payload is rejected with -EINVAL.
C5_ModeEncoder ==
    (IsSet /\ op.command = "mode") =>
        LET words == <<s_mode_auto, s_mode_manual, s_mode_holiday>>
            known == \E k \in 1..3 : IsWord(op.payload, words[k])
        IN  /\ \A k \in 1..3 :
                   IsWord(op.payload, words[k]) =>
                       /\ Len(sent) = 1
                       /\ sent[1].data[7] = k - 1
                       /\ fht_decode(Echo(sent[1]), message, temp_low)
                              .message.report[1].value = words[k]
            /\ ~known => (ret = 0 - EINVAL /\ sent = <<>>)

-----------------------------------------------------------------------------
(* C6, C7: the status and the valve decoders *)

Bit(byte, k) == (byte \div (2 ^ k)) % 2 = 1

StatusReports(byte) ==
    << [topic |-> "window",
        value |-> IF Bit(byte, 5) THEN <<"o", "p", "e", "n">>
                  ELSE <<"c", "l", "o", "s", "e">>],
       [topic |-> "battery",
        value |-> IF Bit(byte, 0) THEN <<"e", "m", "p", "t", "y">>
                  ELSE <<"o", "k">>] >>

\* C6 (as amended): decoding a STATUS frame with function id 0x44 returns 0
\* and yields exactly the two reports "window" and "battery"; window is
\* "open" iff bit 5 of the value byte (frame offset 9) is set, battery is
\* "empty" iff bit 0 of the value byte is set; the status byte (frame
\* offset 8) has no part in them.
C6_StatusFromValueByte ==
    (IsDecode /\ Prefix(op.frame) = magic_status
              /\ IsFrameFor(op.frame, FHT_STATUS)) =>
        /\ ret = 0
        /\ message.report = StatusReports(op.frame.data[10])

C6_Witness ==
    /\ IsDecode
    /\ Prefix(op.frame) = magic_status
    /\ IsFrameFor(op.frame, FHT_STATUS)
    /\ op.frame.data[9] = 0
    /\ op.frame.data[10] = 33
    /\ message.report[1].value = <<"o", "p", "e", "n">>
    /\ message.report[2].value = <<"e", "m", "p", "t", "y">>

\* C6 as stated: the two reports follow bits 5 and 0 of the status byte
\* (frame offset 8)
C6_StatusFromStatusByte ==
    (IsDecode /\ Prefix(op.frame) = magic_status
              /\ IsFrameFor(op.frame, FHT_STATUS)) =>
        /\ ret = 0
        /\ message.report = StatusReports(op.frame.data[9])

\* a STATUS frame for one of the function ids 0x00-0x08 whose status byte
\* has low nibble 0xA and a high nibble among highs
IsLime(f, highs) ==
    /\ Prefix(f) = magic_status
    /\ FailKind(f) = "none"
    /\ f.data[7] \in FHT_IS_VALVE..FHT_VALVE_8
    /\ f.data[9] % 16 = 10
    /\ (f.data[9] \div 16) \in highs

\* the text is value * 100 / 255 to the nearest tenth
IsPercentOf(text, value) ==
    LET p == sscanf_f(text)
        d == p.num * 255 - value * 1000
    IN  /\ p.n = 1
        /\ p.den = 10
        /\ 2 * d <= 255
        /\ 2 * d >= 0 - 255

\* C7 (as amended): for the valve decoder with status low nibble 0xA, high
\* nibble 0xA or 0xB returns 0 and reports the percentage of the value
\* byte under the entry's name; high nibble 0x2 or 0x3 returns -EINVAL and
\* writes no report value, while report slot 0 still carries the entry's
\* name as its topic and slot 1 is empty.
C7_LimeProtection ==
    IsDecode =>
        LET name == fht_commands[find_function(op.frame.data[7])].name
        IN  /\ IsLime(op.frame, {10, 11}) =>
                /\ ret = 0
                /\ message.report[1].topic = name
                /\ IsPercentOf(message.report[1].value, op.frame.data[10])
                /\ message.report[2] = EmptyReport
            /\ IsLime(op.frame, {2, 3}) =>
                /\ ret = 0 - EINVAL
                /\ NoValue(message)
                /\ message.report[1].topic = name
                /\ message.report[2] = EmptyReport

C7_Witness ==
    /\ IsDecode
    /\ IsLime(op.frame, {2})
    /\ op.frame.data[7] = FHT_VALVE_1
    /\ ret = 0 - EINVAL
    /\ message.report[1] = [topic |-> "valve/1", value |-> <<>>]

\* C7 as stated: with high nibble 0x2 or 0x3 no report slot carries a topic
\* or a value
C7_LimeDefectNoReport ==
    IsDecode =>
        /\ IsLime(op.frame, {10, 11}) =>
            /\ ret = 0
            /\ IsPercentOf(message.report[1].value, op.frame.data[10])
        /\ IsLime(op.frame, {2, 3}) =>
            /\ ret = 0 - EINVAL
            /\ NoReport(message)

-----------------------------------------------------------------------------
(* C8, C9: fht_set *)

\* the read-only fields that the registry names
NamedReadOnly ==
    {"is-valve", "status", "is-temp"}
    \cup {"valve/" \o ToString(n) : n \in 1..8}

\* read-only fields that the registry holds without a name (or under
\* another name)
UnnamedReadOnly ==
    {"is-temp-low", "is-temp-high", "ack", "ack2", "start-xmit", "end-xmit"}

\* C8 (as amended): a write to a read-only field that the registry names
\* (is-valve, valve/1..8, status, is-temp) returns -EPERM for every
\* payload; a write to is-temp-low, is-temp-high, ack, ack2, start-xmit or
\* end-xmit, which are no names of the registry, returns -EINVAL; a set
\* command hands a frame to the transport only if its command names an
\* entry and that entry's conversion accepts the payload.
C8_FailedSetSendsNothing ==
    IsSet =>
        /\ op.command \in NamedReadOnly => (ret = 0 - EPERM /\ sent = <<>>)
        /\ op.command \in UnnamedReadOnly => (ret = 0 - EINVAL /\ sent = <<>>)
        /\ sent # <<>> =>
               /\ find_name(op.command) # 0
               /\ input_conversion(Entry(op.command), op.payload) >= 0
        /\ (ret < 0 /\ ret # 0 - EIO) => sent = <<>>

C8_Witness ==
    /\ IsSet
    /\ op.command = "valve/3"
    /\ op.payload = <<"2", "1", ".", "5">>
    /\ ret = 0 - EPERM
    /\ sent = <<>>

\* C8 as stated: a write to any of these read-only fields returns -EPERM
C8_AllReadOnlyEperm ==
    IsSet =>
        /\ op.command \in NamedReadOnly \cup UnnamedReadOnly =>
               (ret = 0 - EPERM /\ sent = <<>>)
        /\ (ret < 0 /\ ret # 0 - EIO) => sent = <<>>

-----------------------------------------------------------------------------
(* C11: the message object reused from call to call *)

\* a message object no call has written to
FreshMessage ==
    [type |-> "", hauscode |-> [upper |-> 0, lower |-> 0],
     report |-> << [topic |-> "", value |-> <<>>],
                   [topic |-> "", value |-> <<>>] >>]

\* the frames whose decode writes report slot 1: function id 0x44, and a
\* STATUS frame for the valve decoder with the pairing nibble 0xF
WritesSecond(f) ==
    /\ FailKind(f) = "none"
    /\ \/ f.data[7] = FHT_STATUS
       \/ /\ f.data[7] \in FHT_IS_VALVE..FHT_VALVE_8
          /\ Prefix(f) = magic_status
          /\ f.data[9] % 16 = 15

\* C11: the message a call of fht_decode leaves is the one it would leave
\* in a message object never used before, given the frame and the latch:
\* nothing of an earlier call remains. A frame that fails classification
\* leaves every report slot empty, and report slot 1 is empty unless this
\* call wrote it (a status decode, or the pairing nibble 0xF).
C11_NothingLeftOver ==
    [][ op'.kind = "decode" =>
          /\ message' = fht_decode(op'.frame, FreshMessage, temp_low).message
          /\ FailKind(op'.frame) # "none" => NoReport(message')
          /\ ~WritesSecond(op'.frame) => message'.report[2] = EmptyReport
      ]_vars

\* a decode that yields one report, on a message whose second slot the
\* call before had filled
C11_Witness ==
    /\ IsDecode
    /\ had_second
    /\ ret = 0
    /\ message.report[1].value # <<>>
    /\ message.report[2] = EmptyReport

\* a decode that fails classification, on such a message
C11_WitnessFailed ==
    /\ IsDecode
    /\ had_second
    /\ FailKind(op.frame) # "none"
    /\ NoReport(message)

=============================================================================
